---- MODULE Spec2Model ----
(***************************************************************************)
(* A model of taipy's GUI builder elements (taipy/gui/builder/_element.py): *)
(* _Element construction and update with property normalisation, _Block    *)
(* child lists and "with" scopes over the builder context stack, and the   *)
(* html element's rendering.                                               *)
(*                                                                         *)
(* Text is a sequence of characters, each a one-character string, so that  *)
(* the code's regular expression, strip() and startswith() are computed    *)
(* character by character.  The character classes are those of Python 3    *)
(* for str, complete for the characters up to U+00FF; a character beyond   *)
(* U+00FF is written as the string "U+hhhh", and of those only the ones    *)
(* named below are classified.  A Python dict is a sequence of [k, v] entries in insertion  *)
(* order.  Python objects are names (their identity) looked up in a        *)
(* fixed table.                                                            *)
(***************************************************************************)
EXTENDS Naturals, Sequences, FiniteSets, TLC

-----------------------------------------------------------------------------
(* Text *)

\* The letters among the characters that \w matches: the ASCII letters, the
\* letters of U+0080..U+00FF, and, of the letters beyond, a Greek and a CJK
\* one.
Letters ==
    {"a","b","c","d","e","f","g","h","i","j","k","l","m","n","o","p","q","r",
     "s","t","u","v","w","x","y","z","A","B","C","D","E","F","G","H","I","J",
     "K","L","M","N","O","P","Q","R","S","T","U","V","W","X","Y","Z",
     "ª","µ","º","À","Á","Â","Ã","Ä","Å","Æ","Ç","È","É","Ê","Ë","Ì",
     "Í","Î","Ï","Ð","Ñ","Ò","Ó","Ô","Õ","Ö","Ø","Ù","Ú","Û","Ü","Ý",
     "Þ","ß","à","á","â","ã","ä","å","æ","ç","è","é","ê","ë","ì","í",
     "î","ï","ð","ñ","ò","ó","ô","õ","ö","ø","ù","ú","û","ü","ý","þ","ÿ",
     "U+03BB","U+4E2D"}

\* What \d matches: the decimal digits, of which U+0663 (ARABIC-INDIC DIGIT
\* THREE) stands for those beyond U+00FF.
Digits == {"0","1","2","3","4","5","6","7","8","9","U+0663"}

\* The other characters that \w matches up to U+00FF: numeric characters
\* that are no decimal digits.
Numerics == {"²","³","¹","¼","½","¾"}

\* The class [\w\d] of the indexed-property pattern.
WordChar(c) == c \in Letters \cup Digits \cup Numerics \cup {"_"}

\* What str.strip() removes: the characters c with c.isspace(), of which
\* U+2003 (EM SPACE) and U+3000 stand for those beyond U+00FF.
Whitespace ==
    {" ", "\t", "\n", "\r", "\f", "", "", "", "", "",
     "", " ", "U+2003", "U+3000"}

RECURSIVE LStrip(_)
LStrip(s) ==
    IF s # <<>> /\ Head(s) \in Whitespace THEN LStrip(Tail(s)) ELSE s

RECURSIVE RStrip(_)
RStrip(s) ==
    IF s # <<>> /\ s[Len(s)] \in Whitespace
    THEN RStrip(SubSeq(s, 1, Len(s) - 1))
    ELSE s

\* str.strip()
Strip(s) == RStrip(LStrip(s))

\* str.startswith("_")
StartsWithUnderscore(s) == s # <<>> /\ Head(s) = "_"

\* sep.join(parts)
RECURSIVE JoinWith(_, _)
JoinWith(sep, parts) ==
    IF parts = <<>> THEN <<>>
    ELSE IF Len(parts) = 1 THEN parts[1]
    ELSE parts[1] \o sep \o JoinWith(sep, Tail(parts))

-----------------------------------------------------------------------------
(* Ordered dictionaries *)

Entry(k, v) == [k |-> k, v |-> v]

DictKeys(d) == [i \in 1..Len(d) |-> d[i].k]

DictHas(d, k) == \E i \in 1..Len(d) : d[i].k = k

DictGet(d, k) == d[CHOOSE i \in 1..Len(d) : d[i].k = k].v

\* d[k] = v: an existing key keeps its place, a new one goes last.
DictSet(d, k, v) ==
    IF DictHas(d, k)
    THEN [i \in 1..Len(d) |-> IF d[i].k = k THEN Entry(k, v) ELSE d[i]]
    ELSE Append(d, Entry(k, v))

\* del d[k]
DictDel(d, k) == SelectSeq(d, LAMBDA e : e.k # k)

\* d.update(other)
RECURSIVE DictUpdate(_, _)
DictUpdate(d, other) ==
    IF other = <<>> THEN d
    ELSE DictUpdate(DictSet(d, Head(other).k, Head(other).v), Tail(other))

-----------------------------------------------------------------------------
(* Python objects that are passed as arguments *)

\* "No object": an unbound name, a string made by the normalisation.
NoObj == "nil"

None == "None"
ObjY == "str y"
ObjHello == "str hello"
ListA == "list a"
ListB == "list b"
Seven == "int 7"
\* The class of "class K: pass", written in the script that calls the
\* library: K.__module__ is "__main__".
ClassK == "class K"
\* Color.RED, a member of class Color(Enum): RED = 1
EnumRed == "enum Color.RED"
TagP == "str p"
TagB == "str b"
TextThis == "str This is a "
TextTaipy == "str Taipy GUI"
TextElement == "str  element."
PageTitle == "str page-title"

Objects ==
    {None, ObjY, ObjHello, ListA, ListB, Seven, ClassK, EnumRed, TagP, TagB,
     TextThis, TextTaipy, TextElement, PageTitle}

\* The type of an object, as far as _parse_property and html look at it.
ObjKind(o) ==
    CASE o = None -> "none"
      [] o \in {ListA, ListB} -> "list"
      [] o = Seven -> "int"
      [] o = ClassK -> "class"
      [] o = EnumRed -> "enum"
      [] OTHER -> "str"

\* str(o)
ObjStr(o) ==
    CASE o = None -> <<"N","o","n","e">>
      [] o = ObjY -> <<"y">>
      [] o = ObjHello -> <<"h","e","l","l","o">>
      [] o \in {ListA, ListB} -> <<"[","1","]">>
      [] o = Seven -> <<"7">>
      [] o = ClassK ->
            <<"<","c","l","a","s","s"," ","'","_","_","m","a","i","n","_","_",
              ".","K","'",">">>
      [] o = EnumRed -> <<"C","o","l","o","r",".","R","E","D">>
      [] o = TagP -> <<"p">>
      [] o = TagB -> <<"b">>
      [] o = TextThis -> <<"T","h","i","s"," ","i","s"," ","a"," ">>
      [] o = TextTaipy -> <<"T","a","i","p","y"," ","G","U","I">>
      [] o = TextElement -> <<" ","e","l","e","m","e","n","t",".">>
      [] o = PageTitle -> <<"p","a","g","e","-","t","i","t","l","e">>

\* hasattr(o, "__name__"): true of a class (and of a function), false of a
\* member of an enumeration, which has the attribute name and no __name__.
HasName(o) == ObjKind(o) = "class"

\* getattr(o, "__name__")
ObjName(o) == IF o = ClassK THEN <<"K">> ELSE <<>>

\* bool(o)
Truthy(o) == o # None /\ (ObjKind(o) = "str" => ObjStr(o) # <<>>)

\* A stored property value: the object itself (obj), or a string the
\* normalisation made (obj = NoObj, text).
Ref(o) == [obj |-> o, text |-> <<>>]
NewStr(s) == [obj |-> NoObj, text |-> s]

\* str(v) of a stored value
ValueStr(v) == IF v.obj # NoObj THEN ObjStr(v.obj) ELSE v.text

-----------------------------------------------------------------------------
(* The call site: the caller's local variables and the text of the call *)

VarX == <<"x">>
VarY == <<"y">>
VarH == <<"_","h">>
\* A name that is no identifier, as globals()[" x"] = ... makes one in the
\* frame of a module.
VarSpaceX == <<" ","x">>

\* An argument as written: a bare identifier, a literal constant, or any
\* other expression (an attribute, a sum, a call) whose value is o.
Name(id) == [kind |-> "name", id |-> id, obj |-> NoObj]
Lit(o) == [kind |-> "lit", id |-> <<>>, obj |-> o]
Expr(o) == [kind |-> "expr", id |-> <<>>, obj |-> o]

\* The value the call passes for an argument written as e, in frame f
\* (f_locals: the bound local variables with their objects, in the order of
\* the dict).
Eval(e, f) == IF e.kind = "name" THEN DictGet(f, e.id) ELSE e.obj

\* arg.id if isinstance(arg, ast.Name) else ast.literal_eval(arg), which the
\* caller then reads through str().  For an expression that is neither,
\* literal_eval raises: see code_arguments_raise.
CodeText(e) == IF e.kind = "name" THEN e.id ELSE ObjStr(e.obj)

EvalArgs(args, f) == [i \in 1..Len(args) |-> Eval(args[i], f)]

EvalKwargs(kwargs, f) ==
    [i \in 1..Len(kwargs) |-> Entry(kwargs[i].k, Eval(kwargs[i].v, f))]

\* A call as written: its positional and its keyword arguments.
Call(args, kwargs) == [args |-> args, kwargs |-> kwargs]

\* Where a call is written.  "stmt": in a simple statement on one line of a
\* source file, with the calls that ast.walk finds on that line before it
\* and after it (an enclosing call comes before the calls among its
\* arguments).  "with": the header line of a with statement, which is no
\* statement by itself, so ast.parse raises.  "nosrc": no source text
\* (frame.code_context is None).
InLine(before, after) == [kind |-> "stmt", before |-> before, after |-> after]
Alone == InLine(<<>>, <<>>)
WithHeader == [kind |-> "with", before |-> <<>>, after |-> <<>>]
NoSource == [kind |-> "nosrc", before |-> <<>>, after |-> <<>>]

\* The ast.Call nodes of the line of a call, in the order of ast.walk.
LineCalls(site, args, kwargs) ==
    site.before \o <<Call(args, kwargs)>> \o site.after

-----------------------------------------------------------------------------
(* Element classes *)

\* html and _DefaultBlock are the blocks of the file.  "text" stands for a
\* control class that declares a default property, as the concrete controls
\* of the library do.
Classes == {"html", "part", "text"}

IsBlock(c) == c \in {"html", "part"}

\* _DEFAULT_PROPERTY
DEFAULT_PROPERTY(c) == IF c = "text" THEN <<"v","a","l","u","e">> ELSE <<>>

\* _ELEMENT_NAME, the class attribute
ELEMENT_NAME(c) ==
    CASE c = "part" -> <<"p","a","r","t">>
      [] c = "text" -> <<"t","e","x","t">>
      [] OTHER -> <<>>

-----------------------------------------------------------------------------
(* Property normalisation *)

\* Where the $ of ^(.*?)__([\w\d]+)$ matches: at the end of the key, or
\* before a newline that is the key's last character.
IndexEnd(key) ==
    IF key # <<>> /\ key[Len(key)] = "\n" THEN Len(key) - 1 ELSE Len(key)

\* Where ^(.*?)__([\w\d]+)$ matches: the ends i of the candidates for group
\* 1, without a newline (which . does not match), each followed by "__" and
\* then by word characters only, at least one, up to IndexEnd.
IndexedSplits(key) ==
    {i \in 0..Len(key) :
        /\ \A j \in 1..i : key[j] # "\n"
        /\ i + 3 <= IndexEnd(key)
        /\ key[i + 1] = "_"
        /\ key[i + 2] = "_"
        /\ \A j \in (i + 3)..IndexEnd(key) : WordChar(key[j])}

\* f"{match.group(1)}[{match.group(2)}]" for group 1 ending at i.
Bracketed(key, i) ==
    SubSeq(key, 1, i) \o <<"[">> \o SubSeq(key, i + 3, IndexEnd(key))
        \o <<"]">>

\* _parse_property_key: the first group is lazy, so it ends at the first
\* place the rest of the pattern matches.
parse_property_key(key) ==
    IF IndexedSplits(key) = {} THEN key
    ELSE Bracketed(key, CHOOSE m \in IndexedSplits(key) :
                            \A n \in IndexedSplits(key) : m <= n)

\* The first local variable, in the order of self.__locals, that makes the
\* object a binding: the same object, and the text of the argument,
\* stripped, is the variable's name, stripped.  0 when there is none.
FirstBinding(locals, key, object, code_arguments) ==
    LET binds ==
            {i \in 1..Len(locals) :
                /\ locals[i].v = object
                /\ DictHas(code_arguments, key)
                /\ Strip(DictGet(code_arguments, key)) = Strip(locals[i].k)}
    IN  IF binds = {} THEN 0
        ELSE CHOOSE i \in binds : \A j \in binds : i <= j

\* _parse_property.  value is what the property map holds under the key:
\* the object the caller passed, or a str that an earlier normalisation
\* made (two keys of one call can normalise to the same key), which has no
\* __name__, is the object of no local variable and is returned as it is.
parse_property(locals, key, value, code_arguments) ==
    IF value.obj = NoObj THEN value
    ELSE IF HasName(value.obj) THEN NewStr(ObjName(value.obj))
    ELSE IF FirstBinding(locals, key, value.obj, code_arguments) # 0
    THEN NewStr(<<"{">>
                \o locals[FirstBinding(locals, key, value.obj,
                                       code_arguments)].k
                \o <<"}">>)
    ELSE IF ObjKind(value.obj) \in {"str", "list"} THEN value
    ELSE NewStr(ObjStr(value.obj))

\* _parse_properties over the keys of updated_property_list, in order: the
\* value is read from the map, a key that is not its normalised form is
\* deleted, and the normalised value is written under the normalised key.
RECURSIVE parse_properties(_, _, _, _)
parse_properties(properties, updated_property_list, locals, code_arguments) ==
    IF updated_property_list = <<>> THEN properties
    ELSE LET k == Head(updated_property_list)
             v == DictGet(properties, k)
             nk == parse_property_key(k)
             dropped == IF k # nk THEN DictDel(properties, k) ELSE properties
         IN  parse_properties(
                 DictSet(dropped, nk,
                         parse_property(locals, nk, v, code_arguments)),
                 Tail(updated_property_list), locals, code_arguments)

\* __get_code_arguments raises: ast.parse on the header of a with
\* statement, ast.literal_eval on an argument, of any call of the line,
\* that is neither a name nor a literal.  The positional argument of a call
\* is looked at only when the class has a default property.
code_arguments_raise(default_property, site, args, kwargs) ==
    \/ site.kind = "with"
    \/ /\ site.kind = "stmt"
       /\ \E n \in 1..Len(LineCalls(site, args, kwargs)) :
             LET call == LineCalls(site, args, kwargs)[n]
             IN  \/ /\ Len(call.args) > 0
                    /\ default_property # <<>>
                    /\ call.args[1].kind = "expr"
                 \/ \E i \in 1..Len(call.kwargs) :
                        call.kwargs[i].v.kind = "expr"

\* The body of __get_code_arguments' loop for one ast.Call node: the text
\* of its first positional argument under the default property, when there
\* is one, then the text of each of its keywords.
call_arguments(default_property, code_arguments, call) ==
    DictUpdate(
        IF Len(call.args) > 0 /\ default_property # <<>>
        THEN DictSet(code_arguments, default_property,
                     CodeText(call.args[1]))
        ELSE code_arguments,
        [i \in 1..Len(call.kwargs) |->
            Entry(call.kwargs[i].k, CodeText(call.kwargs[i].v))])

RECURSIVE line_arguments(_, _, _)
line_arguments(default_property, code_arguments, line) ==
    IF line = <<>> THEN code_arguments
    ELSE line_arguments(default_property,
                        call_arguments(default_property, code_arguments,
                                       Head(line)),
                        Tail(line))

\* __get_code_arguments: over every call of the line, a later call
\* overwriting what an earlier one wrote under the same key.
get_code_arguments(default_property, site, args, kwargs) ==
    IF site.kind # "stmt" THEN <<>>
    ELSE line_arguments(default_property, <<>>,
                        LineCalls(site, args, kwargs))

\* self.__locals: the frame's variables whose names do not start with "_".
element_locals(frame) ==
    SelectSeq(frame, LAMBDA e : ~StartsWithUnderscore(e.k))

RawDict(d) == [i \in 1..Len(d) |-> Entry(d[i].k, Ref(d[i].v))]

\* _Element.__init__, lines 52 to 56: the properties before normalisation.
init_properties(default_property, argv, kwargv) ==
    DictUpdate(
        IF Len(argv) > 0 /\ default_property # <<>>
        THEN <<Entry(default_property, Ref(argv[1]))>>
        ELSE <<>>,
        RawDict(kwargv))

\* _Element.update, lines 80 and 81: the keyword arguments after the
\* positional one was put among them.
update_kwargs(default_property, argv, kwargv) ==
    IF Len(argv) > 0 THEN DictSet(kwargv, default_property, argv[1])
    ELSE kwargv

\* A mutant of add: no test for the element being in the list already.
RECURSIVE AppendingAdd(_, _)
AppendingAdd(children, elements) ==
    IF elements = <<>> THEN children
    ELSE AppendingAdd(Append(children, Head(elements)), Tail(elements))

\* A mutant of add: the elements become the child list.
ReplacingAdd(children, elements) == elements

\* _Block.add: the child list after add(*elements).
RECURSIVE add(_, _)
add(children, elements) ==
    IF elements = <<>> THEN children
    ELSE add(IF \E i \in 1..Len(children) : children[i] = Head(elements)
             THEN children
             ELSE Append(children, Head(elements)),
             Tail(elements))

-----------------------------------------------------------------------------
(* Bounds *)

\* Elements constructed in one run without add calls.
MaxElems == 4
\* Elements constructed in one run with add calls.
MaxTreeElems == 3
\* Depth of nested with scopes.
MaxDepth == 2
\* Explicit add calls in one run.
MaxAdds == 1
\* Update calls in one run.
MaxUpdates == 1
\* Elements constructed in one run with rendering.
MaxRenderElems == 4

-----------------------------------------------------------------------------
(* State *)

VARIABLES
    blocks,         \* _BuilderContextManager's stack of open blocks, top last
    cls,            \* per element, its class
    stage,          \* per element, how far its __init__ chain got
    locals,         \* per element, self.__locals
    properties,     \* per element, self._properties
    children,       \* per element, self._children
    element_name,   \* per element, self._ELEMENT_NAME (<<>>: None or "")
    content,        \* per element, self._content: the object passed or ""
    result,         \* what the last call returned or that it raised
    rendered,       \* what the last _render returned: its text, and
                    \* whether it is a str
    open,           \* the with statements being executed: the block of
                    \* each, and the stack as it was before it was entered
    calls,          \* number of add and update calls the program made
    owner,          \* per element, the top of the stack at its construction
    last            \* the last call and its arguments

vars ==
    <<blocks, cls, stage, locals, properties, children, element_name,
      content, result, rendered, open, calls, owner, last>>

Elements == 1..Len(cls)

\* The elements the caller holds: those whose constructor returned.
Built == {e \in Elements : stage[e] = "done"}

\* _BuilderContextManager.peek(): the open block on top, 0 for None.
peek(stack) == IF stack = <<>> THEN 0 ELSE stack[Len(stack)]

\* _BuilderContextManager.push(element)
push(stack, element) == Append(stack, element)

\* _BuilderContextManager.pop()
pop(stack) == SubSeq(stack, 1, Len(stack) - 1)

\* What _render returns: the object's text, and whether the object is a str.
Text(s) == [str |-> TRUE, text |-> s]
NoText == Text(<<>>)

NoCall ==
    [op |-> "none", elem |-> 0, site |-> Alone, frame |-> <<>>,
     args |-> <<>>, kwargs |-> <<>>, elements |-> <<>>, saved |-> <<>>]

Returned(v) == [raised |-> FALSE, value |-> v]
Raised == [raised |-> TRUE, value |-> 0]

Init ==
    /\ blocks = <<>>
    /\ cls = <<>>
    /\ stage = <<>>
    /\ locals = <<>>
    /\ properties = <<>>
    /\ children = <<>>
    /\ element_name = <<>>
    /\ content = <<>>
    /\ result = Returned(0)
    /\ rendered = NoText
    /\ open = <<>>
    /\ calls = 0
    /\ owner = <<>>
    /\ last = NoCall

-----------------------------------------------------------------------------
(* Construction *)

\* _Element.__new__: the child lists after parent.add(obj).
new_children(stack, chn, obj) ==
    IF peek(stack) = 0 THEN chn
    ELSE [chn EXCEPT ![peek(stack)] = add(@, <<obj>>)]

\* The arguments are well formed at the call site: every identifier is a
\* bound variable, no keyword is repeated.
CallOk(frame, args, kwargs) ==
    /\ \A i \in 1..Len(args) :
          args[i].kind = "name" => DictHas(frame, args[i].id)
    /\ \A i \in 1..Len(kwargs) :
          kwargs[i].v.kind = "name" => DictHas(frame, kwargs[i].v.id)
    /\ \A i, j \in 1..Len(kwargs) : kwargs[i].k = kwargs[j].k => i = j

\* c(*args, **kwargs) written at site, in a frame whose locals are frame:
\* __new__, then the __init__ chain of the class up to the first raise.
Construct(c, site, frame, args, kwargs) ==
    LET obj == Len(cls) + 1
        argv == EvalArgs(args, frame)
        kwargv == EvalKwargs(kwargs, frame)
        raw == init_properties(DEFAULT_PROPERTY(c), argv, kwargv)
        code_arguments ==
            get_code_arguments(DEFAULT_PROPERTY(c), site, args, kwargs)
        parsed ==
            parse_properties(raw, DictKeys(raw), element_locals(frame),
                             code_arguments)
        \* _Element.__init__ raised
        raised1 ==
            code_arguments_raise(DEFAULT_PROPERTY(c), site, args, kwargs)
        \* html.__init__ raised
        raised2 == ~raised1 /\ c = "html" /\ args = <<>>
        done == ~raised1 /\ ~raised2
    IN  /\ CallOk(frame, args, kwargs)
        /\ cls' = Append(cls, c)
        /\ owner' = Append(owner, peek(blocks))
        /\ children' = new_children(blocks, Append(children, <<>>), obj)
        /\ locals' = Append(locals, element_locals(frame))
        /\ properties' = Append(properties, IF raised1 THEN raw ELSE parsed)
        /\ stage' = Append(stage, IF raised1 THEN "raw"
                                  ELSE IF raised2 THEN "block" ELSE "done")
        /\ element_name' =
              Append(element_name,
                     IF done /\ c = "html"
                     THEN (IF Truthy(argv[1]) THEN ObjStr(argv[1]) ELSE <<>>)
                     ELSE ELEMENT_NAME(c))
        /\ content' =
              Append(content,
                     IF done /\ c = "html" /\ Len(argv) > 1
                     THEN Ref(argv[2]) ELSE NewStr(<<>>))
        /\ result' = IF done THEN Returned(obj) ELSE Raised
        /\ last' = [NoCall EXCEPT !.op = "construct", !.elem = obj,
                       !.site = site, !.frame = frame, !.args = args,
                       !.kwargs = kwargs]
        /\ UNCHANGED <<blocks, rendered, open, calls>>

-----------------------------------------------------------------------------
(* Update *)

\* element.update(*args, **kwargs) written at site, in a frame whose locals
\* are frame.  The normalisation reads the locals taken at construction.
Update(element, site, frame, args, kwargs) ==
    LET default_property == DEFAULT_PROPERTY(cls[element])
        argv == EvalArgs(args, frame)
        kwargv == update_kwargs(default_property, argv,
                                EvalKwargs(kwargs, frame))
        merged == DictUpdate(properties[element], RawDict(kwargv))
        code_arguments ==
            get_code_arguments(default_property, site, args, kwargs)
        parsed ==
            parse_properties(merged, DictKeys(kwargv), locals[element],
                             code_arguments)
        raised ==
            code_arguments_raise(default_property, site, args, kwargs)
    IN  /\ element \in Built
        /\ CallOk(frame, args, kwargs)
        /\ properties' =
              [properties EXCEPT ![element] =
                  IF raised THEN merged ELSE parsed]
        /\ result' = IF raised THEN Raised ELSE Returned(0)
        /\ calls' = calls + 1
        /\ last' = [NoCall EXCEPT !.op = "update", !.elem = element,
                       !.site = site, !.frame = frame, !.args = args,
                       !.kwargs = kwargs]
        /\ UNCHANGED <<blocks, cls, stage, locals, children, element_name,
                       content, rendered, open, owner>>

-----------------------------------------------------------------------------
(* Blocks: add, and the with statement *)

\* block.add(*elements), called by the program.
Add(block, elements) ==
    /\ block \in Built
    /\ IsBlock(cls[block])
    /\ \A i \in 1..Len(elements) : elements[i] \in Built
    /\ children' = [children EXCEPT ![block] = add(@, elements)]
    /\ result' = Returned(block)
    /\ calls' = calls + 1
    /\ last' = [NoCall EXCEPT !.op = "add", !.elem = block,
                   !.elements = elements]
    /\ UNCHANGED <<blocks, cls, stage, locals, properties, element_name,
                   content, rendered, open, owner>>

\* "with block:" is entered: _Block.__enter__.
BlockEnter(block) ==
    /\ block \in Built
    /\ IsBlock(cls[block])
    /\ blocks' = push(blocks, block)
    /\ open' = Append(open, [block |-> block, saved |-> blocks])
    /\ result' = Returned(block)
    /\ last' = [NoCall EXCEPT !.op = "enter", !.elem = block]
    /\ UNCHANGED <<cls, stage, locals, properties, children, element_name,
                   content, rendered, calls, owner>>

\* "with control:" is attempted: _Control.__enter__ raises, the body of the
\* with statement does not run and __exit__ is not called.
ControlEnter(control) ==
    /\ control \in Built
    /\ ~IsBlock(cls[control])
    /\ result' = Raised
    /\ last' = [NoCall EXCEPT !.op = "enter", !.elem = control]
    /\ UNCHANGED <<blocks, cls, stage, locals, properties, children,
                   element_name, content, rendered, open, calls, owner>>

\* The mutant of exit_blocks: __exit__ leaves the stack as it is.
NoPopExitBlocks(stack) == stack

\* _Block.__exit__: the stack after it.
exit_blocks(stack) == pop(stack)

\* The innermost with statement is left: _Block.__exit__ of its block.
BlockExit ==
    /\ open # <<>>
    /\ blocks # <<>>
    /\ blocks' = exit_blocks(blocks)
    /\ open' = SubSeq(open, 1, Len(open) - 1)
    /\ result' = Returned(0)
    /\ last' = [NoCall EXCEPT !.op = "exit", !.elem = open[Len(open)].block,
                   !.saved = open[Len(open)].saved]
    /\ UNCHANGED <<cls, stage, locals, properties, children, element_name,
                   content, rendered, calls, owner>>

-----------------------------------------------------------------------------
(* Rendering of html elements *)

\* The text k="str(v)" of each property, in the order of the dictionary.
attribute_texts(d) ==
    [i \in 1..Len(d) |->
        d[i].k \o <<"=", "\"">> \o ValueStr(d[i].v) \o <<"\"">>]

\* isinstance(v, str) of a stored value
IsStr(v) == v.obj = NoObj \/ ObjKind(v.obj) = "str"

\* html._render and _Block._render_children, for a tree of html elements
\* (HtmlTree), where the _render of every child is html._render again:
\* whether it returns, whether what it returns is a str, and its text.  An
\* element whose __init__ raised has the class's empty _ELEMENT_NAME and no
\* _content: the read of self._content raises.  An element without a tag
\* returns self._content, whatever object it is; str.join raises on a child
\* whose rendering is no str.  rendering holds the elements whose _render
\* is running: an element that is reached again among its own descendants
\* (add can make a block a child of itself or of a descendant) recurses
\* until Python raises RecursionError.
RECURSIVE html_render(_, _)
html_render(element, rendering) ==
    LET rendered_children ==
            [i \in 1..Len(children[element]) |->
                html_render(children[element][i], rendering \cup {element})]
        attrs ==
            IF properties[element] # <<>>
            THEN <<" ">> \o JoinWith(<<" ">>,
                                     attribute_texts(properties[element]))
            ELSE <<>>
        failed == [ok |-> FALSE, str |-> TRUE, text |-> <<>>]
    IN  IF element \in rendering THEN failed
        ELSE IF stage[element] # "done" THEN failed
        ELSE IF element_name[element] = <<>>
        THEN [ok |-> TRUE, str |-> IsStr(content[element]),
              text |-> ValueStr(content[element])]
        ELSE IF \E i \in 1..Len(rendered_children) :
                    ~rendered_children[i].ok \/ ~rendered_children[i].str
        THEN failed
        ELSE [ok |-> TRUE, str |-> TRUE,
              text |->
                  <<"<">> \o element_name[element] \o attrs \o <<">">>
                  \o ValueStr(content[element])
                  \o JoinWith(<<"\n">>,
                              [i \in 1..Len(rendered_children) |->
                                  rendered_children[i].text])
                  \o <<"<", "/">> \o element_name[element] \o <<">">>]

\* Every element that html._render of element reaches is an html element.
\* _render_children calls each child's own _render, one child after the
\* other, and stops at the first that raises: a child is reached when the
\* _render of every child before it returned.  The _render of a _Block or a
\* _Control that is no html returns what _BuilderFactory makes of the
\* element, which this model does not hold.  An element without a tag, or
\* whose __init__ raised, or that is reached again among its own
\* descendants, renders no child.
RECURSIVE HtmlTree(_, _)
HtmlTree(element, rendering) ==
    /\ cls[element] = "html"
    /\ (/\ element \notin rendering
        /\ stage[element] = "done"
        /\ element_name[element] # <<>>)
          => \A i \in 1..Len(children[element]) :
                (\A j \in 1..(i - 1) :
                    /\ HtmlTree(children[element][j],
                                rendering \cup {element})
                    /\ html_render(children[element][j],
                                   rendering \cup {element}).ok)
                  => HtmlTree(children[element][i], rendering \cup {element})

\* element._render(gui), called by the program on an html element, where
\* every element the rendering reaches is an html element.
Render(element) ==
    /\ element \in Built
    /\ HtmlTree(element, {})
    /\ rendered' = [str |-> html_render(element, {}).str,
                    text |-> html_render(element, {}).text]
    /\ result' = IF html_render(element, {}).ok THEN Returned(0) ELSE Raised
    /\ last' = [NoCall EXCEPT !.op = "render", !.elem = element]
    /\ UNCHANGED <<blocks, cls, stage, locals, properties, children,
                   element_name, content, open, calls, owner>>

-----------------------------------------------------------------------------
(* Scopes: constructions and with statements *)

NoFrame == <<>>

\* The constructor calls of these runs: a block, a block whose constructor
\* raises (html without its tag), and a control.
ScopeCalls ==
    {<<"html", <<Lit(TagP)>>>>, <<"html", <<>>>>, <<"text", <<>>>>}

ConstructInScope ==
    \E call \in ScopeCalls :
        /\ Len(cls) < MaxElems
        /\ Construct(call[1], Alone, NoFrame, call[2], <<>>)

EnterBlock ==
    \E block \in Elements :
        /\ Len(open) < MaxDepth
        /\ BlockEnter(block)

EnterControl == \E control \in Elements : ControlEnter(control)

Next ==
    \/ ConstructInScope
    \/ EnterBlock
    \/ EnterControl
    \/ BlockExit

Spec == Init /\ [][Next]_vars

-----------------------------------------------------------------------------
(* The tree: constructions, with statements and add calls.  The with     *)
(* statements of these runs are not nested.                               *)

TreeCalls == {<<"html", <<Lit(TagP)>>>>, <<"html", <<>>>>}

ConstructInTree ==
    \E call \in TreeCalls :
        /\ Len(cls) < MaxTreeElems
        /\ Construct(call[1], Alone, NoFrame, call[2], <<>>)

EnterTreeBlock ==
    \E block \in Elements :
        /\ open = <<>>
        /\ BlockEnter(block)

AddCall ==
    \E block \in Elements, a \in Elements, b \in Elements \cup {0} :
        /\ calls < MaxAdds
        /\ Add(block, IF b = 0 THEN <<a>> ELSE <<a, b>>)

NextTree ==
    \/ ConstructInTree
    \/ EnterTreeBlock
    \/ AddCall
    \/ BlockExit

SpecTree == Init /\ [][NextTree]_vars

-----------------------------------------------------------------------------
(* Properties: one element, constructed and then updated *)

KeyLabel == <<"l","a","b","e","l">>
KeyValue == <<"v","a","l","u","e">>
KeyColor0 == <<"c","o","l","o","r","_","_","0">>
KeyABC == <<"a","_","_","b","_","_","c">>

RawKeys == {KeyLabel, KeyValue, KeyColor0, KeyABC}

\* The frames of the calls: the variables bound at the call site.  ListA
\* and ListB are equal lists and two objects; ObjY is the string "y";
\* EnumRed is a member of an enumeration.
Frames ==
    {<<Entry(VarX, ListB)>>,
     <<Entry(VarX, EnumRed)>>,
     <<Entry(VarX, ListA), Entry(VarY, ListA)>>,
     <<Entry(VarX, ClassK), Entry(VarY, ObjY), Entry(VarH, ListA)>>}

\* The frame of a module in which " x" and x name the same list.
ModuleFrame == <<Entry(VarSpaceX, ListA), Entry(VarX, ListA)>>

\* Lines that hold other calls: page.add(text(label=x)), where the call is
\* the argument of another, and [text(label=x), text(label=y)], where
\* another call follows.
SharedLines ==
    {InLine(<<Call(<<Expr(NoObj)>>, <<>>)>>, <<>>),
     InLine(<<>>, <<Call(<<>>, <<Entry(KeyLabel, Name(VarY))>>)>>)}

\* The arguments as written: a variable of the frame, a constant, or an
\* expression such as o.a whose value is a list.
Exprs ==
    {Name(VarX), Name(VarY), Name(VarH), Lit(ObjY), Lit(Seven), Expr(ListA)}

\* No positional argument, or one.
ArgLists == {<<>>, <<Name(VarX)>>, <<Lit(Seven)>>}

\* No keyword argument, or one.
KwargLists == {<<>>} \cup {<<Entry(k, e)>> : k \in RawKeys, e \in Exprs}

ConstructWithProperties ==
    \E c \in {"part", "text"}, frame \in Frames, args \in ArgLists,
       kwargs \in KwargLists :
        /\ cls = <<>>
        /\ Construct(c, Alone, frame, args, kwargs)

\* label=x, on a line with other calls or in the module's frame.
ConstructElsewhere ==
    \E c \in {"part", "text"}, site \in SharedLines \cup {Alone},
       frame \in {ModuleFrame, <<Entry(VarX, ListB), Entry(VarY, ListA)>>} :
        /\ cls = <<>>
        /\ Construct(c, site, frame, <<>>, <<Entry(KeyLabel, Name(VarX))>>)

UpdateCall ==
    \E element \in Elements, frame \in Frames, args \in ArgLists,
       kwargs \in KwargLists :
        /\ calls < MaxUpdates
        /\ Update(element, Alone, frame, args, kwargs)

NextProps ==
    \/ ConstructWithProperties
    \/ ConstructElsewhere
    \/ UpdateCall

SpecProps == Init /\ [][NextProps]_vars

-----------------------------------------------------------------------------
(* What the claims are stated with *)

Range(seq) == {seq[i] : i \in 1..Len(seq)}

InChildren(block, element) == element \in Range(children[block])

NoDuplicates(seq) == \A i, j \in 1..Len(seq) : seq[i] = seq[j] => i = j

\* The key has the raw indexed form: the pattern of the indexed properties
\* matches it.
RawIndexedForm(key) == IndexedSplits(key) # {}

\* The key split at its last double underscore: the index is the trailing
\* double-underscore-delimited token.
TrailingTokenKey(key) ==
    IF ~RawIndexedForm(key) THEN key
    ELSE Bracketed(key, CHOOSE m \in IndexedSplits(key) :
                            \A n \in IndexedSplits(key) : n <= m)

\* The last call was a construction or an update that returned.
PropertyCall == last.op \in {"construct", "update"} /\ ~result.raised

LastDefault == DEFAULT_PROPERTY(cls[last.elem])

LastProperties == properties[last.elem]

\* The i-th keyword argument of the last call is the one stored: in an
\* update the positional argument replaces a keyword of the same key.
KeywordStored(i) ==
    \/ last.op = "construct"
    \/ last.args = <<>>
    \/ last.kwargs[i].k # LastDefault

\* The positional argument of the last call is the one stored.
PositionalStored ==
    /\ last.args # <<>>
    /\ \/ last.op = "update"
       \/ /\ LastDefault # <<>>
          /\ \A i \in 1..Len(last.kwargs) : last.kwargs[i].k # LastDefault

Braced(id) == NewStr(<<"{">> \o id \o <<"}">>)

\* The value exposes a named identity: a class, or a member of an
\* enumeration.
NamedIdentity(o) == ObjKind(o) \in {"class", "enum"}

\* The name of that identity: K for the class K, RED for Color.RED.
IdentityName(o) == IF o = EnumRed THEN <<"R","E","D">> ELSE ObjName(o)

-----------------------------------------------------------------------------
(* Claims about the properties *)

\* C2: at construction, a keyword argument written as a bare identifier x,
\* with x in the element's locals bound to the object passed and the object
\* without a name, is stored under the normalized key as "{x}"; a keyword
\* argument written as a string literal is stored as that string.
C2_BindingAtConstruction ==
    (last.op = "construct" /\ ~result.raised /\ last.site.kind = "stmt") =>
        \A i \in 1..Len(last.kwargs) :
            LET k == parse_property_key(last.kwargs[i].k)
                e == last.kwargs[i].v
                v == Eval(e, last.frame)
            IN  /\ DictHas(LastProperties, k)
                /\ (/\ e.kind = "name"
                    /\ DictHas(locals[last.elem], e.id)
                    /\ DictGet(locals[last.elem], e.id) = v
                    /\ ~HasName(v))
                      => DictGet(LastProperties, k) = Braced(e.id)
                /\ (e.kind = "lit" /\ ObjKind(e.obj) = "str")
                      => DictGet(LastProperties, k) = Ref(e.obj)

\* C4: update(k=y), with y a variable of the update's frame and the object
\* passed without a name, stores "{y}" under k, whatever y was when the
\* element was constructed.  (Stated for plain keys, public variables and
\* keywords the positional argument does not replace.)
C4_UpdateBindsAtUpdateSite ==
    (last.op = "update" /\ ~result.raised /\ last.site.kind = "stmt") =>
        \A i \in 1..Len(last.kwargs) :
            LET k == last.kwargs[i].k
                e == last.kwargs[i].v
                v == Eval(e, last.frame)
            IN  (/\ KeywordStored(i)
                 /\ ~RawIndexedForm(k)
                 /\ e.kind = "name"
                 /\ ~StartsWithUnderscore(e.id)
                 /\ ~HasName(v))
                   => /\ DictHas(LastProperties, k)
                      /\ DictGet(LastProperties, k) = Braced(e.id)

\* C5: update stores what construction would store for the same arguments:
\* the keys and values of construction's property map before normalisation
\* (a positional argument only under a declared default property, a keyword
\* over a positional argument of the same key), normalised, and no key for
\* a positional argument without a default property.
C5_UpdateMergesAsConstruction ==
    (last.op = "update" /\ ~result.raised) =>
        LET want == init_properties(LastDefault,
                                    EvalArgs(last.args, last.frame),
                                    EvalKwargs(last.kwargs, last.frame))
            code_arguments ==
                get_code_arguments(LastDefault, last.site, last.args,
                                   last.kwargs)
        IN  /\ \A j \in 1..Len(want) :
                  LET k == parse_property_key(want[j].k)
                  IN  /\ DictHas(LastProperties, k)
                      /\ DictGet(LastProperties, k) =
                            parse_property(locals[last.elem], k,
                                           want[j].v, code_arguments)
            /\ (LastDefault = <<>> => ~DictHas(LastProperties, <<>>))

\* C6: after a construction and any number of update calls, no key of the
\* element's property map has the raw indexed form name__index, and every
\* keyword of the last call is stored under the key whose index is the
\* trailing double-underscore-delimited token (color__0 under color[0]), a
\* key not of that form under itself.
C6_KeysSplitAtTrailingToken ==
    /\ \A e \in Built : \A i \in 1..Len(properties[e]) :
          ~RawIndexedForm(properties[e][i].k)
    /\ PropertyCall =>
          \A i \in 1..Len(last.kwargs) :
              DictHas(LastProperties, TrailingTokenKey(last.kwargs[i].k))

\* C8: a value that exposes a named identity (a class, a function, a member
\* of an enumeration), passed by keyword or positionally to a construction
\* or an update, is stored as that identity's name, whatever the locals and
\* the text of the argument are: never as "{x}" when the argument is the
\* variable x that holds it.
C8_NamedIdentityFirst ==
    PropertyCall =>
        /\ \A i \in 1..Len(last.kwargs) :
              LET v == Eval(last.kwargs[i].v, last.frame)
                  k == parse_property_key(last.kwargs[i].k)
              IN  (KeywordStored(i) /\ NamedIdentity(v)) =>
                      /\ DictHas(LastProperties, k)
                      /\ DictGet(LastProperties, k) = NewStr(IdentityName(v))
        /\ LET v == Eval(last.args[1], last.frame)
           IN  (PositionalStored /\ NamedIdentity(v)) =>
                   /\ DictHas(LastProperties, LastDefault)
                   /\ DictGet(LastProperties, LastDefault)
                         = NewStr(IdentityName(v))

-----------------------------------------------------------------------------
(* Claims about scopes and child lists *)

\* C1: when a with statement is left the stack is what it was before the
\* statement was entered, and an element just constructed is in the child
\* list of the block on top of the stack and of no other block: not of an
\* enclosing one, not of one whose scope has been left.
C1_ScopeBalance ==
    /\ last.op = "exit" => blocks = last.saved
    /\ last.op = "construct" =>
          \A c \in Elements :
              InChildren(c, last.elem) <=> c = peek(blocks)

\* A block y was constructed in the scope of a block x, an element in the
\* scope of y, which is a child of y only, and after y's scope was left the
\* last element was constructed, which is a child of x only.
C1_Witness ==
    /\ last.op = "construct"
    /\ Len(blocks) = 1
    /\ \E y \in Elements :
          /\ y # blocks[1]
          /\ InChildren(blocks[1], y)
          /\ children[y] # <<>>
          /\ \A a \in Range(children[y]) : ~InChildren(blocks[1], a)
          /\ InChildren(blocks[1], last.elem)
          /\ ~InChildren(y, last.elem)

\* C10: a construction that raises changes neither the stack nor any child
\* list.
C10_FailedConstructionHasNoEffect ==
    [][(last'.op = "construct" /\ result'.raised) =>
          /\ blocks' = blocks
          /\ \A c \in Elements : children'[c] = children[c]]_vars

\* C3, as amended: a child list gets an element only when the element is
\* constructed while the list's block is on top of the stack, or when add
\* is called on the block with the element; it never loses one; and every
\* element constructed under an open block is in that block's list.
C3_MembershipByConstructionOrAdd ==
    [][/\ \A c \in 1..Len(cls'), e \in 1..Len(cls') :
             LET before == c \in Elements /\ InChildren(c, e)
                 now == e \in Range(children'[c])
             IN  /\ before => now
                 /\ (now /\ ~before) =>
                       \/ /\ last'.op = "construct"
                          /\ e = last'.elem
                          /\ c = peek(blocks)
                       \/ /\ last'.op = "add"
                          /\ c = last'.elem
                          /\ e \in Range(last'.elements)
       /\ \A e \in 1..Len(cls') :
             owner'[e] # 0 => e \in Range(children'[owner'[e]])]_vars

\* C3, as claimed: an element is in the child list of no block but the one
\* that was on top of the stack when it was constructed.
C3_SingleOwner ==
    \A c \in Elements, e \in Elements : InChildren(c, e) => c = owner[e]

\* An element constructed in one block's scope was added to another block:
\* it is in both child lists.
C3_Witness ==
    \E c \in Elements, d \in Elements, e \in Elements :
        /\ c # d
        /\ owner[e] = c
        /\ InChildren(c, e)
        /\ InChildren(d, e)
        /\ last.op = "add"
        /\ last.elem = d

\* The place of an element's first occurrence in a sequence.
FirstIndex(seq, x) ==
    CHOOSE i \in 1..Len(seq) :
        seq[i] = x /\ \A j \in 1..(i - 1) : seq[j] # x

\* C7: add keeps the child list as it was and appends the elements that
\* were not in it, each once, in the order of their first occurrence among
\* the arguments; it changes no other child list and returns the block.  No
\* child list, whether filled by add or by constructions, holds an element
\* twice.
C7_AddIdempotentInOrder ==
    [][/\ \A c \in 1..Len(cls') : NoDuplicates(children'[c])
       /\ last'.op = "add" =>
             LET c == last'.elem
                 old == children[c]
                 new == children'[c]
                 given == last'.elements
             IN  /\ Len(old) <= Len(new)
                 /\ SubSeq(new, 1, Len(old)) = old
                 /\ Range(new) = Range(old) \cup Range(given)
                 /\ \A i, j \in (Len(old) + 1)..Len(new) :
                       i < j =>
                           FirstIndex(given, new[i]) < FirstIndex(given, new[j])
                 /\ \A d \in Elements \ {c} : children'[d] = children[d]
                 /\ result' = Returned(c)]_vars

\* add(a, b) on the block in whose scope a was constructed: a, already in
\* the list, stays where it was and b is appended.
C7_Witness ==
    /\ last.op = "add"
    /\ Len(last.elements) = 2
    /\ owner[last.elements[1]] = last.elem
    /\ owner[last.elements[2]] # last.elem
    /\ last.elements[1] # last.elements[2]
    /\ children[last.elem] = last.elements
    /\ result = Returned(last.elem)

-----------------------------------------------------------------------------
(* Rendering: html elements constructed in with scopes, then rendered *)

KeyId == <<"i","d">>

\* The html calls of the class's documentation, and a text node whose
\* content is no str.
HtmlCalls ==
    {<<<<Lit(TagP)>>, <<>>>>,
     <<<<Lit(None), Lit(TextThis)>>, <<>>>>,
     <<<<Lit(TagB), Lit(TextTaipy)>>, <<>>>>,
     <<<<Lit(None), Lit(TextElement)>>, <<>>>>,
     <<<<Lit(TagB), Lit(TextTaipy)>>, <<Entry(KeyId, Lit(PageTitle))>>>>,
     <<<<Lit(None), Lit(Seven)>>, <<>>>>}

\* A statement "html(...)" or "name = html(...)".
ConstructHtml ==
    \E call \in HtmlCalls :
        /\ Len(cls) < MaxRenderElems
        /\ Construct("html", Alone, NoFrame, call[1], call[2])

\* with html("p"): the constructor call written in the header of the with
\* statement, as in the documentation's example.  The constructor raises
\* before the block is entered.
ConstructHtmlInWithHeader ==
    /\ Len(cls) < MaxRenderElems
    /\ Construct("html", WithHeader, NoFrame, <<Lit(TagP)>>, <<>>)

EnterHtml ==
    \E block \in Elements :
        /\ open = <<>>
        /\ BlockEnter(block)

RenderCall == \E element \in Elements : Render(element)

NextRender ==
    \/ ConstructHtml
    \/ ConstructHtmlInWithHeader
    \/ EnterHtml
    \/ BlockExit
    \/ RenderCall

SpecRender == Init /\ [][NextRender]_vars

\* The text of the documentation's example:
\* <p>This is a <b>Taipy GUI</b> element.</p>
DocumentedText ==
    <<"<","p",">","T","h","i","s"," ","i","s"," ","a"," ","<","b",">",
      "T","a","i","p","y"," ","G","U","I","<","/","b",">"," ","e","l",
      "e","m","e","n","t",".","<","/","p",">">>

\* The tree of the documentation's example: html("p") with, constructed in
\* its scope, html(None, "This is a "), html("b", "Taipy GUI") and
\* html(None, " element.").
DocumentedTree(p) ==
    /\ element_name[p] = ObjStr(TagP)
    /\ content[p] = NewStr(<<>>)
    /\ properties[p] = <<>>
    /\ Len(children[p]) = 3
    /\ \A i \in 1..3 :
          LET c == children[p][i]
          IN  /\ stage[c] = "done"
              /\ owner[c] = p
              /\ children[c] = <<>>
              /\ properties[c] = <<>>
    /\ element_name[children[p][1]] = <<>>
    /\ content[children[p][1]] = Ref(TextThis)
    /\ element_name[children[p][2]] = ObjStr(TagB)
    /\ content[children[p][2]] = Ref(TextTaipy)
    /\ element_name[children[p][3]] = <<>>
    /\ content[children[p][3]] = Ref(TextElement)

\* C9: rendering a tagged html element gives its opening tag, its content,
\* the renderings of its children one directly after the other, and its
\* closing tag: the tree of the documentation's example renders as
\* <p>This is a <b>Taipy GUI</b> element.</p>.
C9_DocumentedExampleRenders ==
    (last.op = "render" /\ DocumentedTree(last.elem)) =>
        /\ ~result.raised
        /\ rendered = Text(DocumentedText)

====
